---------------------------- MODULE Spec2Model ----------------------------
(***************************************************************************)
(* Model of the macOS accessibility warm-up helper.  Two front-ends are    *)
(* modelled: "initializer" (src/macos_ax_initializer.py, AXInitializer and *)
(* its main) and "warmup" (src/github_warmup_AX.py).  One run of one       *)
(* front-end is one behaviour: permission check, enumeration of running    *)
(* applications, target selection, one warm-up step per target, exit.      *)
(*                                                                         *)
(* Strings are sequences of one-character strings, so that lower(),        *)
(* substring containment and the ordering used by sorted() are computed    *)
(* as the Python code computes them.                                       *)
(***************************************************************************)
EXTENDS Integers, Sequences, FiniteSets

\* ------------------------------------------------------------------ bounds
\* Largest number of entries the platform's running-application list holds.
MaxApps == 3
\* Largest number of name fragments given on the command line.
MaxFragments == 2

\* ----------------------------------------------------------------- strings
UpperCase == <<"A", "B", "C", "D", "E", "F", "G", "H", "I", "J", "K", "L", "M",
               "N", "O", "P", "Q", "R", "S", "T", "U", "V", "W", "X", "Y", "Z">>
LowerCase == <<"a", "b", "c", "d", "e", "f", "g", "h", "i", "j", "k", "l", "m",
               "n", "o", "p", "q", "r", "s", "t", "u", "v", "w", "x", "y", "z">>

\* Code point of a character (space, A-Z, a-z): what Python compares strings by.
Chars == {" "} \cup { UpperCase[i] : i \in 1..26 } \cup { LowerCase[i] : i \in 1..26 }
OrdTable ==
    [c \in Chars |->
        IF c = " " THEN 32
        ELSE IF \E i \in 1..26 : UpperCase[i] = c
             THEN 64 + (CHOOSE i \in 1..26 : UpperCase[i] = c)
             ELSE 96 + (CHOOSE i \in 1..26 : LowerCase[i] = c)]
Ord(c) == OrdTable[c]

\* str.lower() on one character.
LowerTable ==
    [c \in Chars |->
        IF \E i \in 1..26 : UpperCase[i] = c
        THEN LowerCase[CHOOSE i \in 1..26 : UpperCase[i] = c]
        ELSE c]
LowerChar(c) == LowerTable[c]

\* str.lower()
Lower(s) == [i \in 1..Len(s) |-> LowerChar(s[i])]

\* Python's `needle in hay` for strings (the empty string is in every string).
Contains(needle, hay) ==
    \E i \in 0..(Len(hay) - Len(needle)) :
        \A j \in 1..Len(needle) : hay[i + j] = needle[j]

\* Python's a < b on strings: lexicographic by code point.
StrLess(a, b) ==
    \E i \in 1..(Len(a) + 1) :
        /\ i <= Len(b)
        /\ \A j \in 1..(i - 1) : a[j] = b[j]
        /\ \/ i = Len(a) + 1
           \/ Ord(a[i]) < Ord(b[i])

\* --------------------------------------------------------- program constants
\* AXInitializer.ELECTRON_APPS
ELECTRON_APPS == {
    <<"c", "l", "a", "u", "d", "e">>,
    <<"c", "h", "a", "t", "g", "p", "t">>,
    <<"s", "l", "a", "c", "k">>,
    <<"d", "i", "s", "c", "o", "r", "d">>,
    <<"n", "o", "t", "i", "o", "n">>,
    <<"c", "u", "r", "s", "o", "r">>,
    <<"v", "i", "s", "u", "a", "l", " ", "s", "t", "u", "d", "i", "o", " ", "c", "o", "d", "e">>,
    <<"s", "p", "o", "t", "i", "f", "y">>,
    <<"w", "h", "a", "t", "s", "a", "p", "p">>,
    <<"t", "e", "l", "e", "g", "r", "a", "m">>,
    <<"f", "i", "g", "m", "a">>,
    <<"o", "b", "s", "i", "d", "i", "a", "n">>,
    <<"t", "y", "p", "o", "r", "a">>,
    <<"m", "a", "r", "k", " ", "t", "e", "x", "t">> }

\* The helper markers ("Helper", "Networking", "Service") of the helper filter.
HelperMarkers == {
    <<"H", "e", "l", "p", "e", "r">>,
    <<"N", "e", "t", "w", "o", "r", "k", "i", "n", "g">>,
    <<"S", "e", "r", "v", "i", "c", "e">> }

\* Default of --targets in the warmup front-end.
DefaultTargets == <<
    <<"c", "l", "a", "u", "d", "e">>,
    <<"c", "h", "a", "t", "g", "p", "t">>,
    <<"s", "l", "a", "c", "k">>,
    <<"n", "o", "t", "i", "o", "n">>,
    <<"d", "i", "s", "c", "o", "r", "d">>,
    <<"c", "u", "r", "s", "o", "r">> >>

\* kAXErrorCannotComplete, the error code classified as 'partial'.
kAXErrorCannotComplete == -25212
\* Error code the warmup front-end returns when the binding raises.
GenericError == -1

\* ------------------------------------------------------------- environment
\* Display names the platform may report: a known Electron application, one
\* of its helper processes, an application that is neither (its name sorts
\* after "Slack" by code point and before it case-insensitively), and <<>>,
\* an application without a resolvable display name (localizedName() is None
\* or empty).
NoName == <<>>
NameSlack == <<"S", "l", "a", "c", "k">>
NameSlackHelper == <<"S", "l", "a", "c", "k", " ", "H", "e", "l", "p", "e", "r">>
NameITerm == <<"i", "T", "e", "r", "m">>
NamePool == {NoName, NameSlack, NameSlackHelper, NameITerm}
NameFinder == <<"F", "i", "n", "d", "e", "r">>

\* The listing [("Slack Helper", 100), ("Slack", 101), ("Finder", 102)].
ScenarioDirectory ==
    << [name |-> NameSlackHelper, pid |-> 100],
       [name |-> NameSlack, pid |-> 101],
       [name |-> NameFinder, pid |-> 102] >>

\* Fragments the user may give with --apps / --targets.
FragSlack == <<"S", "L", "A", "C", "K">>
FragEr == <<"e", "r">>
FragmentPool == {FragSlack, FragEr}

\* Every listing NSWorkspace.runningApplications() may return: up to MaxApps
\* entries, process ids unique (100, 101, ...), names from NamePool; and the
\* scenario listing.
Workspaces ==
    UNION { { [i \in 1..n |-> [name |-> f[i], pid |-> 99 + i]] :
                f \in [1..n -> NamePool] } : n \in 0..MaxApps }
    \cup {ScenarioDirectory}

\* Fragment lists of length lo..MaxFragments.
FragmentLists(lo) ==
    UNION { [1..n -> FragmentPool] : n \in lo..MaxFragments }

\* Answers of AXIsProcessTrusted(): a truth value, or an exception.
TrustAnswers == {"trusted", "untrusted", "raises"}

\* Which call shape of AXUIElementCopyAttributeValue the PyObjC binding
\* accepts; the other shape is rejected with TypeError.
Conventions == {"two", "three"}

\* What the platform does for one target: AXUIElementCreateApplication raises,
\* or the attribute read raises, or returns an (error, value) tuple, or
\* returns a bare value.  value "None" stands for Python's None.
BindingResults ==
    { [kind |-> "create_raises", err |-> 0, value |-> "None"],
      [kind |-> "raises", err |-> 0, value |-> "None"],
      [kind |-> "tuple", err |-> 0, value |-> "AXApplication"],
      [kind |-> "tuple", err |-> 0, value |-> ""],
      [kind |-> "tuple", err |-> 0, value |-> "None"],
      [kind |-> "tuple", err |-> kAXErrorCannotComplete, value |-> "None"],
      [kind |-> "tuple", err |-> -25211, value |-> "None"],
      [kind |-> "bare", err |-> 0, value |-> "AXApplication"] }

\* Python truthiness of a role value.
Truthy(v) == v /= "" /\ v /= "None"


\* ---------------------------------------------------------- pure functions
Range(s) == { s[i] : i \in DOMAIN s }

\* Mutant of SortKey: the key is the name itself, not lower-cased.
SortKey_CaseSensitive(app) == app.name

\* The key of sorted(apps, key=lambda x: x.name.lower()).
SortKey(app) == Lower(app.name)

\* sorted(apps, key=...): Python's sort is stable, so an element goes after
\* every element whose key is not greater than its own.
RECURSIVE SortedByKey(_)
SortedByKey(apps) ==
    IF apps = <<>> THEN <<>>
    ELSE LET n == Len(apps)
             front == SortedByKey(SubSeq(apps, 1, n - 1))
             x == apps[n]
             k == Cardinality({ i \in DOMAIN front :
                                  ~StrLess(SortKey(x), SortKey(front[i])) })
         IN SubSeq(front, 1, k) \o <<x>> \o SubSeq(front, k + 1, Len(front))

\* AXInitializer.get_running_applications: the entries with a display name,
\* sorted by lower-cased name.
get_running_applications(ws) ==
    SortedByKey(SelectSeq(ws, LAMBDA a : a.name /= NoName))

\* list_running_apps (warmup): the entries with a display name, in the
\* platform's order.
list_running_apps(ws) == SelectSeq(ws, LAMBDA a : a.name /= NoName)

\* AXInitializer.find_apps_by_names: for each target name in turn, the first
\* application whose lower-cased name contains it (the inner loop breaks).
RECURSIVE find_apps_by_names(_, _)
find_apps_by_names(all_apps, target_names) ==
    IF target_names = <<>> THEN <<>>
    ELSE LET target_lower == Lower(Head(target_names))
             hits == { i \in DOMAIN all_apps :
                         Contains(target_lower, Lower(all_apps[i].name)) }
             first == CHOOSE i \in hits : \A j \in hits : i <= j
         IN (IF hits = {} THEN <<>> ELSE <<all_apps[first]>>)
            \o find_apps_by_names(all_apps, Tail(target_names))

\* find_targets (warmup): every running application whose lower-cased name
\* contains some lower-cased fragment, in the order of `running`.
find_targets(running, fragments) ==
    SelectSeq(running, LAMBDA a :
        \E i \in DOMAIN fragments : Contains(Lower(fragments[i]), Lower(a.name)))

\* any(substr.lower() in app.name.lower() for substr in ("Helper", ...))
HasHelperMarker(name) ==
    LET name_lower == Lower(name)
    IN \E m \in HelperMarkers : Contains(Lower(m), name_lower)

\* any(electron_name in app.name.lower() for electron_name in ELECTRON_APPS)
IsElectronName(name) ==
    LET name_lower == Lower(name)
    IN \E e \in ELECTRON_APPS : Contains(e, name_lower)

\* filtered_apps of initialize_multiple_apps.
FilteredApps(app_infos) ==
    SelectSeq(app_infos, LAMBDA a : ~HasHelperMarker(a.name))

\* skipped_apps of initialize_multiple_apps: app not in filtered_apps.
SkippedApps(app_infos) ==
    SelectSeq(app_infos, LAMBDA a : a \notin Range(FilteredApps(app_infos)))

\* electron_apps of initialize_electron_apps: helper processes are dropped
\* inside the selection loop (continue).
ElectronApps(all_apps) ==
    SelectSeq(all_apps, LAMBDA a :
        IsElectronName(a.name) /\ ~HasHelperMarker(a.name))

\* The applications initialize_electron_apps tests for helper markers: those
\* matching a known Electron name.
ElectronCandidates(all_apps) ==
    SelectSeq(all_apps, LAMBDA a : IsElectronName(a.name))

\* AXUIElementCopyAttributeValue called with `arity` arguments on a binding of
\* convention `conv`: a call of the other shape raises TypeError.
BindingCall(conv, arity, raw) ==
    IF conv /= arity THEN [kind |-> "type_error", err |-> 0, value |-> "None"]
    ELSE raw

\* What one call's return value (or exception) is turned into.
Unpack(res, on_exception) ==
    IF res.kind \in {"raises", "type_error"} THEN on_exception
    ELSE IF res.kind = "tuple" THEN <<res.err, res.value>>
    ELSE <<0, res.value>>

\* AXInitializer._ax_get_role_robust: one 2-argument call; any exception
\* gives (-25212, None).
ax_get_role_robust(conv, raw) ==
    Unpack(BindingCall(conv, "two", raw), <<kAXErrorCannotComplete, "None">>)

\* The calls _ax_get_role_robust makes.
ax_get_role_calls == <<"two">>

\* What the last AXUIElementCopyAttributeValue call of one warm-up did, as the
\* code saw it (`calls` are the call shapes tried, in order).
LastCallResult(conv, calls, raw) ==
    IF raw.kind = "create_raises" THEN raw
    ELSE BindingCall(conv, calls[Len(calls)], raw)

\* AXInitializer.initialize_app_accessibility: 'success', 'partial', 'failure'.
initialize_app_accessibility(conv, raw) ==
    IF raw.kind = "create_raises" THEN "failure"
    ELSE LET r == ax_get_role_robust(conv, raw)
         IN IF r[1] = 0 /\ Truthy(r[2]) THEN "success"
            ELSE IF r[1] = kAXErrorCannotComplete THEN "partial"
            ELSE "failure"

\* ax_copy_attribute_value_robust (warmup): the 3-argument call first; on
\* TypeError the 2-argument call; any other exception gives (-1, None).
ax_copy_attribute_value_robust(conv, raw) ==
    LET first == BindingCall(conv, "three", raw)
    IN IF first.kind = "type_error"
       THEN Unpack(BindingCall(conv, "two", raw), <<GenericError, "None">>)
       ELSE Unpack(first, <<GenericError, "None">>)

\* The calls ax_copy_attribute_value_robust makes.
ax_copy_attribute_value_calls(conv) ==
    IF conv = "two" THEN <<"three", "two">> ELSE <<"three">>

\* Values of --delay (type=float, default 0.0), by what lines 139-140 of
\* warm_up_app do with them.  "accepted": the delay is not > 0 (the default
\* 0.0, a negative number, nan) and nothing sleeps, or it is positive and
\* time.sleep returns; either way the warm-up goes on unchanged.  "refused":
\* the delay is positive and does not fit the platform's time_t (inf, 1e10),
\* and time.sleep raises OverflowError.
DelayPool == {"accepted", "refused"}

\* warm_up_app, lines 139-140: if delay_s > 0: time.sleep(delay_s) raises.
SleepRaises(delay) == delay = "refused"

\* warm_up_app (warmup): True exactly when err == 0 and role is truthy; an
\* exception of the sleep or of the handle creation is caught and gives False.
warm_up_app(delay, conv, raw) ==
    IF SleepRaises(delay) THEN FALSE
    ELSE IF raw.kind = "create_raises" THEN FALSE
    ELSE LET r == ax_copy_attribute_value_robust(conv, raw)
         IN r[1] = 0 /\ Truthy(r[2])

\* AXInitializer._setup_logging: the logger's level is INFO when verbose and
\* WARNING otherwise, and main constructs it with verbose = not args.quiet.
LoggerLevel(quiet) == IF quiet THEN "warning" ELSE "info"

\* One call of self.logger.info / warning / error: a record below the
\* logger's level is dropped.
Emit(log, quiet, level, message) ==
    IF level = "info" /\ LoggerLevel(quiet) = "warning" THEN log
    ELSE log \cup {<<level, message>>}

\* results[app_info.name] = status
DictSet(d, k, v) == [x \in DOMAIN d \cup {k} |-> IF x = k THEN v ELSE d[x]]

\* Mutant of check_accessibility_permissions: the answer is not looked at.
check_accessibility_permissions_AlwaysTrue(answer) == TRUE

\* AXInitializer.check_accessibility_permissions on a platform answer that is
\* a truth value.
check_accessibility_permissions(answer) == answer = "trusted"

\* has_accessibility_permission (warmup): an exception counts as not trusted.
has_accessibility_permission(answer) ==
    IF answer = "raises" THEN FALSE ELSE answer = "trusted"

\* The exit status main (initializer) derives from the results dict.
MainExitCode(res) ==
    IF DOMAIN res /= {} /\ \E n \in DOMAIN res : res[n] = "success" THEN 0 ELSE 1

\* The exit status main (warmup) derives from the success count.
WarmupExitCode(count) == IF count > 0 THEN 0 ELSE 0

\* -------------------------------------------------------------------- state
VARIABLES
    frontend,       \* which program runs: "initializer" or "warmup"
    args,           \* the parsed command line
    convention,     \* the call shape the binding accepts
    pc,             \* "start", "dispatch", "warming", "done", "crashed"
    trust,          \* AXIsProcessTrusted()'s answer, "unqueried" before the call
    workspace,      \* what runningApplications() returned
    enumerations,   \* number of runningApplications() calls
    all_apps,       \* get_running_applications() / list_running_apps() result
    candidates,     \* the applications selected before helper exclusion
    filtered_apps,  \* the applications the batch loop iterates over
    skipped_apps,   \* skipped_apps of initialize_multiple_apps
    idx,            \* position of the batch loop in filtered_apps
    results,        \* the results dict (initializer): name -> status
    success_count,  \* success_count of warm_up_targets (warmup)
    attempted,      \* the warm-up calls made, in order: [app, outcome]
    handles,        \* number of AXUIElementCreateApplication calls
    reads,          \* the AXUIElementCopyAttributeValue calls: [app, arity]
    lastRaw,        \* what the latest warm-up's last binding call did
    printed,        \* the lines --list printed
    logged,         \* the records the logger emitted: <<level, message>>,
                    \* levels info and above (DEBUG records are not kept)
    exit_code       \* the process exit status, -1 while running

vars == <<frontend, args, convention, pc, trust, workspace, enumerations,
          all_apps, candidates, filtered_apps, skipped_apps, idx, results,
          success_count, attempted, handles, reads, lastRaw, printed, logged,
          exit_code>>

\* Command lines of the initializer: --list, --all-running, --quiet,
\* --apps NAME... (nargs='+'; apps = <<>> when the option is absent).
InitializerArgs ==
    [list : BOOLEAN, all_running : BOOLEAN, quiet : BOOLEAN, delay : {"accepted"},
     apps : FragmentLists(1) \cup {<<>>}, targets : {<<>>}]

\* Command lines of the warmup front-end: --targets [NAME...] (nargs='*'),
\* DefaultTargets when the option is absent, and --delay SECONDS.  The
\* front-end has no --list, --all-running, --quiet or --apps; its --verbose
\* only adds DEBUG records.
WarmupArgs ==
    [list : {FALSE}, all_running : {FALSE}, quiet : {FALSE}, delay : DelayPool,
     apps : {<<>>}, targets : FragmentLists(0) \cup {DefaultTargets}]

NoRaw == [kind |-> "none", err |-> 0, value |-> "None"]

Init ==
    /\ frontend \in {"initializer", "warmup"}
    /\ args \in (IF frontend = "initializer" THEN InitializerArgs ELSE WarmupArgs)
    /\ convention \in Conventions
    /\ pc = "start"
    /\ trust = "unqueried"
    /\ workspace = <<>>
    /\ enumerations = 0
    /\ all_apps = <<>>
    /\ candidates = <<>>
    /\ filtered_apps = <<>>
    /\ skipped_apps = <<>>
    /\ idx = 1
    /\ results = <<>>
    /\ success_count = 0
    /\ attempted = <<>>
    /\ handles = 0
    /\ reads = <<>>
    /\ lastRaw = NoRaw
    /\ printed = <<>>
    /\ logged = {}
    /\ exit_code = -1

\* ------------------------------------------------------------------ actions
\* main (initializer), lines 326-330: the permission check comes first.  An
\* exception of AXIsProcessTrusted is not caught anywhere: the interpreter
\* prints the traceback and exits with status 1.
MainCheckPermission ==
    /\ pc = "start" /\ frontend = "initializer"
    /\ \E answer \in TrustAnswers :
        /\ trust' = answer
        /\ IF answer = "raises"
           THEN /\ pc' = "crashed"
                /\ exit_code' = 1
                /\ logged' = logged
           ELSE IF ~check_accessibility_permissions(answer)
           THEN /\ pc' = "done"
                /\ exit_code' = 1
                /\ logged' = Emit(logged, args.quiet, "error", "PermissionDenied")
           ELSE /\ pc' = "dispatch"
                /\ exit_code' = exit_code
                /\ logged' = Emit(logged, args.quiet, "info", "PermissionConfirmed")
    /\ UNCHANGED <<frontend, args, convention, workspace, enumerations, all_apps,
                   candidates, filtered_apps, skipped_apps, idx, results,
                   success_count, attempted, handles, reads, lastRaw, printed>>

\* main (warmup), lines 215-217.
WarmupCheckPermission ==
    /\ pc = "start" /\ frontend = "warmup"
    /\ \E answer \in TrustAnswers :
        /\ trust' = answer
        /\ IF ~has_accessibility_permission(answer)
           THEN /\ pc' = "done"
                /\ exit_code' = 1
                /\ logged' = logged \cup {<<"error", "PermissionDenied">>}
           ELSE /\ pc' = "dispatch"
                /\ exit_code' = exit_code
                /\ logged' = logged
    /\ UNCHANGED <<frontend, args, convention, workspace, enumerations, all_apps,
                   candidates, filtered_apps, skipped_apps, idx, results,
                   success_count, attempted, handles, reads, lastRaw, printed>>

\* NSWorkspace cannot be queried: the exception is caught nowhere in either
\* front-end, so the run ends with a traceback and status 1.
DirectoryUnavailable ==
    /\ pc = "dispatch"
    /\ enumerations' = enumerations + 1
    /\ pc' = "crashed"
    /\ exit_code' = 1
    /\ UNCHANGED <<frontend, args, convention, trust, workspace, all_apps,
                   candidates, filtered_apps, skipped_apps, idx, results,
                   success_count, attempted, handles, reads, lastRaw, printed,
                   logged>>

\* main (initializer), lines 333-340: --list.
MainList ==
    /\ pc = "dispatch" /\ frontend = "initializer"
    /\ args.list
    /\ \E ws \in Workspaces :
        /\ workspace' = ws
        /\ all_apps' = get_running_applications(ws)
        /\ printed' = get_running_applications(ws)
    /\ enumerations' = enumerations + 1
    /\ exit_code' = 0
    /\ pc' = "done"
    /\ UNCHANGED <<frontend, args, convention, trust, candidates, filtered_apps,
                   skipped_apps, idx, results, success_count, attempted, handles,
                   reads, lastRaw, logged>>

\* initialize_multiple_apps up to its loop: the empty-input return, the helper
\* filter and the skipped list.
EnterBatch(app_infos) ==
    IF app_infos = <<>>
    THEN /\ filtered_apps' = <<>>
         /\ skipped_apps' = <<>>
         /\ logged' = Emit(logged, args.quiet, "warning", "NoApplications")
    ELSE /\ filtered_apps' = FilteredApps(app_infos)
         /\ skipped_apps' = SkippedApps(app_infos)
         /\ logged' = logged

\* main (initializer), lines 343-350: --apps.
MainApps ==
    /\ pc = "dispatch" /\ frontend = "initializer"
    /\ ~args.list /\ args.apps /= <<>>
    /\ \E ws \in Workspaces :
        LET apps == get_running_applications(ws)
            target_apps == find_apps_by_names(apps, args.apps)
        IN /\ workspace' = ws
           /\ all_apps' = apps
           /\ candidates' = target_apps
           /\ IF target_apps = <<>>
              THEN /\ logged' = Emit(logged, args.quiet, "error", "NoMatch")
                   /\ exit_code' = 1
                   /\ pc' = "done"
                   /\ UNCHANGED <<filtered_apps, skipped_apps>>
              ELSE /\ EnterBatch(target_apps)
                   /\ exit_code' = exit_code
                   /\ pc' = "warming"
    /\ enumerations' = enumerations + 1
    /\ UNCHANGED <<frontend, args, convention, trust, idx, results,
                   success_count, attempted, handles, reads, lastRaw, printed>>

\* main (initializer), lines 353-355: --all-running.
MainAllRunning ==
    /\ pc = "dispatch" /\ frontend = "initializer"
    /\ ~args.list /\ args.apps = <<>> /\ args.all_running
    /\ \E ws \in Workspaces :
        LET apps == get_running_applications(ws)
        IN /\ workspace' = ws
           /\ all_apps' = apps
           /\ candidates' = apps
           /\ EnterBatch(apps)
    /\ enumerations' = enumerations + 1
    /\ pc' = "warming"
    /\ UNCHANGED <<frontend, args, convention, trust, idx, results,
                   success_count, attempted, handles, reads, lastRaw, printed,
                   exit_code>>

\* main (initializer), line 359, and initialize_electron_apps.
MainElectron ==
    /\ pc = "dispatch" /\ frontend = "initializer"
    /\ ~args.list /\ args.apps = <<>> /\ ~args.all_running
    /\ \E ws \in Workspaces :
        LET apps == get_running_applications(ws)
            electron_apps == ElectronApps(apps)
        IN /\ workspace' = ws
           /\ all_apps' = apps
           /\ candidates' = ElectronCandidates(apps)
           /\ IF electron_apps = <<>>
              THEN /\ logged' = Emit(logged, args.quiet, "info", "NoElectronApps")
                   /\ UNCHANGED <<filtered_apps, skipped_apps>>
              ELSE EnterBatch(electron_apps)
    /\ enumerations' = enumerations + 1
    /\ pc' = "warming"
    /\ UNCHANGED <<frontend, args, convention, trust, idx, results,
                   success_count, attempted, handles, reads, lastRaw, printed,
                   exit_code>>

\* One iteration of the loop of initialize_multiple_apps (lines 240-245):
\* initialize_app_accessibility on the next application, its status stored
\* under the application's name.
InitializeNextApp ==
    /\ pc = "warming" /\ frontend = "initializer"
    /\ idx <= Len(filtered_apps)
    /\ \E raw \in BindingResults :
        LET app == filtered_apps[idx]
            status == initialize_app_accessibility(convention, raw)
        IN /\ lastRaw' = LastCallResult(convention, ax_get_role_calls, raw)
           /\ handles' = handles + 1
           /\ reads' = IF raw.kind = "create_raises" THEN reads
                       ELSE reads \o [i \in DOMAIN ax_get_role_calls |->
                                        [app |-> app, arity |-> ax_get_role_calls[i]]]
           /\ results' = DictSet(results, app.name, status)
           /\ attempted' = Append(attempted, [app |-> app, outcome |-> status])
    /\ idx' = idx + 1
    /\ UNCHANGED <<frontend, args, convention, pc, trust, workspace, enumerations,
                   all_apps, candidates, filtered_apps, skipped_apps,
                   success_count, printed, logged, exit_code>>

\* main (initializer), lines 361-365, after the batch returned its results.
MainExit ==
    /\ pc = "warming" /\ frontend = "initializer"
    /\ idx > Len(filtered_apps)
    /\ exit_code' = MainExitCode(results)
    /\ pc' = "done"
    /\ UNCHANGED <<frontend, args, convention, trust, workspace, enumerations,
                   all_apps, candidates, filtered_apps, skipped_apps, idx, results,
                   success_count, attempted, handles, reads, lastRaw, printed,
                   logged>>

\* warm_up_targets (warmup), lines 162-170: enumeration and selection.
WarmupSelect ==
    /\ pc = "dispatch" /\ frontend = "warmup"
    /\ \E ws \in Workspaces :
        LET running == list_running_apps(ws)
            targets == find_targets(running, args.targets)
        IN /\ workspace' = ws
           /\ all_apps' = running
           /\ candidates' = targets
           /\ filtered_apps' = targets
           /\ logged' = IF running = <<>>
                        THEN logged \cup {<<"info", "NoRunningApplications">>}
                        ELSE IF targets = <<>>
                        THEN logged \cup {<<"info", "NoMatch">>}
                        ELSE logged
    /\ enumerations' = enumerations + 1
    /\ pc' = "warming"
    /\ UNCHANGED <<frontend, args, convention, trust, skipped_apps, idx, results,
                   success_count, attempted, handles, reads, lastRaw, printed,
                   exit_code>>

\* One iteration of the loop of warm_up_targets (lines 173-175): warm_up_app.
WarmUpNextApp ==
    /\ pc = "warming" /\ frontend = "warmup"
    /\ idx <= Len(filtered_apps)
    /\ \E raw \in BindingResults :
        LET app == filtered_apps[idx]
            ok == warm_up_app(args.delay, convention, raw)
            calls == ax_copy_attribute_value_calls(convention)
        IN /\ IF SleepRaises(args.delay)
              THEN UNCHANGED <<lastRaw, handles, reads>>
              ELSE /\ lastRaw' = LastCallResult(convention, calls, raw)
                   /\ handles' = handles + 1
                   /\ reads' = IF raw.kind = "create_raises" THEN reads
                               ELSE reads \o [i \in DOMAIN calls |->
                                                [app |-> app, arity |-> calls[i]]]
           /\ success_count' = IF ok THEN success_count + 1 ELSE success_count
           /\ attempted' = Append(attempted,
                  [app |-> app,
                   outcome |-> IF ok THEN "success" ELSE "partial_or_failed"])
    /\ idx' = idx + 1
    /\ UNCHANGED <<frontend, args, convention, pc, trust, workspace, enumerations,
                   all_apps, candidates, filtered_apps, skipped_apps, results,
                   printed, logged, exit_code>>

\* main (warmup), lines 219-225.
WarmupExit ==
    /\ pc = "warming" /\ frontend = "warmup"
    /\ idx > Len(filtered_apps)
    /\ exit_code' = WarmupExitCode(success_count)
    /\ pc' = "done"
    /\ UNCHANGED <<frontend, args, convention, trust, workspace, enumerations,
                   all_apps, candidates, filtered_apps, skipped_apps, idx, results,
                   success_count, attempted, handles, reads, lastRaw, printed,
                   logged>>

Next ==
    \/ MainCheckPermission
    \/ WarmupCheckPermission
    \/ DirectoryUnavailable
    \/ MainList
    \/ MainApps
    \/ MainAllRunning
    \/ MainElectron
    \/ InitializeNextApp
    \/ MainExit
    \/ WarmupSelect
    \/ WarmUpNextApp
    \/ WarmupExit

Spec == Init /\ [][Next]_vars

\* ------------------------------------------------------------------ claims
\* Vocabulary of the claims.
AnyFragmentIn(name, fragments) ==
    \E i \in DOMAIN fragments : Contains(Lower(fragments[i]), Lower(name))

\* The run selects by fragments given on the command line or by default.
ByFragments ==
    \/ frontend = "initializer" /\ ~args.list /\ args.apps /= <<>>
    \/ frontend = "warmup"
Fragments == IF frontend = "initializer" THEN args.apps ELSE args.targets

\* The fragments were given by the user (not the built-in default list).
ExplicitFragments ==
    \/ frontend = "initializer" /\ ~args.list /\ args.apps /= <<>>
    \/ frontend = "warmup" /\ args.targets /= <<>> /\ args.targets /= DefaultTargets

\* The run uses the built-in set of known applications.
KnownDefaults ==
    \/ frontend = "initializer" /\ ~args.list /\ args.apps = <<>> /\ ~args.all_running
    \/ frontend = "warmup" /\ args.targets = DefaultTargets

\* The run got its process list and went on to select targets.
Selected == pc \in {"warming", "done"} /\ enumerations > 0 /\ ~args.list
\* The run selected targets and ended normally.
Finished == pc = "done" /\ enumerations > 0 /\ ~args.list

AttemptedRecords == { attempted[i].app : i \in DOMAIN attempted }
AnySuccess == \E i \in DOMAIN attempted : attempted[i].outcome = "success"

\* C1: with permission granted and the process list available, the exit
\* status is 0 exactly when some attempted target succeeded or no target was
\* selected, and 1 exactly when targets were attempted and none succeeded.
\* (The explicit-fragments-matched-nothing case, which the text treats as an
\* error of its own, is left out of the statement.)
C1_ExitStatusContract ==
    (Finished /\ trust = "trusted" /\ ~(ExplicitFragments /\ candidates = <<>>)) =>
        /\ exit_code = 0 <=> (AnySuccess \/ filtered_apps = <<>>)
        /\ exit_code = 1 <=> (attempted /= <<>> /\ ~AnySuccess)

\* C2: when the permission query answers "not trusted", the run ends at once
\* with exit status 1: no enumeration of running applications, no handle and
\* no attribute read, whatever the flags.
C2_UntrustedStopsBeforeEnumeration ==
    trust = "untrusted" =>
        /\ pc = "done"
        /\ exit_code = 1
        /\ enumerations = 0
        /\ handles = 0
        /\ reads = <<>>
        /\ attempted = <<>>

\* A run of the initializer with --list that was refused at the permission gate.
C2_Witness ==
    /\ trust = "untrusted" /\ pc = "done"
    /\ frontend = "initializer" /\ args.list
    /\ <<"error", "PermissionDenied">> \in logged

\* The outcome C3 gives for what the binding did in one bootstrap read.
ClaimedOutcome(res) ==
    IF res.kind \in {"create_raises", "raises", "type_error"} THEN "failure"
    ELSE IF res.kind = "tuple" /\ res.err = kAXErrorCannotComplete THEN "partial"
    ELSE IF res.kind = "tuple" /\ res.err /= 0 THEN "failure"
    ELSE IF Truthy(res.value) THEN "success"
    ELSE "failure"

\* C3: every attempt of the initializer is classified Success, Partial or
\* Failure as the classification table says; an exception raised by the
\* binding gives Failure, never Partial.  (Rejections of the call shape are
\* left out of the statement.)
C3_Classification ==
    (frontend = "initializer" /\ attempted /= <<>> /\ lastRaw.kind /= "type_error") =>
        /\ attempted[Len(attempted)].outcome \in {"success", "partial", "failure"}
        /\ attempted[Len(attempted)].outcome = ClaimedOutcome(lastRaw)

\* C4: fragment-based selection returns only applications whose name contains
\* a fragment (case-insensitively) and returns every such application that
\* carries no helper marker: all matches, not the first one per fragment.
C4_FragmentSelection ==
    (ByFragments /\ Selected) =>
        /\ \A a \in Range(filtered_apps) : AnyFragmentIn(a.name, Fragments)
        /\ \A a \in Range(all_apps) :
               (AnyFragmentIn(a.name, Fragments) /\ ~HasHelperMarker(a.name))
                   => a \in Range(filtered_apps)

\* C5: when the batch is over, one attempt was made and one entry recorded per
\* filtered target, also when targets share a display name.
C5_NoShortCircuit ==
    (Finished /\ trust = "trusted") =>
        /\ Len(attempted) = Len(filtered_apps)
        /\ frontend = "initializer" =>
               Cardinality(DOMAIN results) = Len(filtered_apps)

\* C6: in every selection mode the skipped applications and the attempted
\* ones are disjoint and together are the candidates selected before helper
\* exclusion.
C6_SkippedAndAttemptedPartition ==
    (Finished /\ trust = "trusted") =>
        /\ Range(skipped_apps) \cap AttemptedRecords = {}
        /\ Range(skipped_apps) \cup AttemptedRecords = Range(candidates)

\* C7: no attribute read is ever made on an application whose name carries a
\* helper marker; for the listing [Slack Helper, Slack, Finder] under the
\* built-in defaults the only attempted application is Slack.
C7_HelpersNeverRead ==
    /\ \A i \in DOMAIN reads : ~HasHelperMarker(reads[i].app.name)
    /\ (Finished /\ KnownDefaults /\ workspace = ScenarioDirectory) =>
           AttemptedRecords = {[name |-> NameSlack, pid |-> 101]}

\* C8: explicitly requested fragments that match no running application,
\* against a non-empty directory: no attribute read, NoMatch reported as an
\* error, exit status 1.
C8_NoMatchIsAnError ==
    (/\ Finished /\ ExplicitFragments
     /\ all_apps /= <<>>
     /\ \A a \in Range(all_apps) : ~AnyFragmentIn(a.name, Fragments)) =>
        /\ reads = <<>>
        /\ <<"error", "NoMatch">> \in logged
        /\ exit_code = 1

\* The named entries of the platform's listing.
NamedEntries == { a \in Range(workspace) : a.name /= NoName }

\* C9: with permission granted, --list never creates an accessibility handle
\* nor reads an attribute, and ends with exit status 0 having printed one line
\* per application that has a display name, sorted by name case-insensitively.
C9_ListPrintsSortedAndReadsNothing ==
    (frontend = "initializer" /\ args.list /\ trust = "trusted") =>
        /\ handles = 0 /\ reads = <<>> /\ attempted = <<>>
        /\ pc = "done" =>
              /\ exit_code = 0
              /\ Len(printed) = Cardinality(NamedEntries)
              /\ Range(printed) = NamedEntries
              /\ \A i, j \in DOMAIN printed :
                    i < j => ~StrLess(Lower(printed[j].name), Lower(printed[i].name))

\* A finished --list run over a listing with a nameless entry, whose printed
\* order differs from the code-point order of the names.
C9_Witness ==
    /\ frontend = "initializer" /\ args.list /\ trust = "trusted" /\ pc = "done"
    /\ \E a \in Range(workspace) : a.name = NoName
    /\ Len(printed) = 2
    /\ printed[1].name = NameITerm /\ printed[2].name = NameSlack

\* C10: the permission query never raises: when the platform's trust check
\* fails with an exception the result is "not granted" and the run stops with
\* the permission error.
C10_PermissionQueryFailsClosed ==
    trust = "raises" =>
        /\ pc = "done"
        /\ exit_code = 1
        /\ <<"error", "PermissionDenied">> \in logged

\* Position of a record in the listing the selection was made from.
PositionIn(listing, a) == CHOOSE i \in DOMAIN listing : listing[i] = a

\* C11: the result of fragment-based selection follows the order of the
\* running-application listing, not the order of the fragments: two different
\* selected records come in the order they have in the listing.
C11_SelectionFollowsListingOrder ==
    (ByFragments /\ Selected) =>
        \A i, j \in DOMAIN candidates :
            (i < j /\ candidates[i] /= candidates[j]) =>
                PositionIn(all_apps, candidates[i]) < PositionIn(all_apps, candidates[j])

\* A call of the attribute read that the binding rejected for its shape.
Rejected(read) == read.arity /= convention

\* The latest warm-up began with a call the binding rejected for its shape.
LastWarmUpMetMismatch ==
    /\ attempted /= <<>>
    /\ lastRaw.kind /= "create_raises"
    /\ \E i \in DOMAIN reads :
        /\ reads[i].app = attempted[Len(attempted)].app
        /\ Rejected(reads[i])
        /\ \A j \in DOMAIN reads : j > i => reads[j].app = reads[i].app

\* What an accepted call of the attribute read says about the target.
ReadSucceeded(res) ==
    /\ res.kind \in {"tuple", "bare"}
    /\ res.err = 0
    /\ Truthy(res.value)

\* C12: the attribute read tolerates both calling conventions: a call rejected
\* as a calling-convention mismatch is followed by a call on the same target
\* with the other convention, the outcome of the target is the outcome of that
\* second call, and the mismatch alone never gives Partial or Failure.
C12_ToleratesBothConventions ==
    /\ \A i \in DOMAIN reads :
        Rejected(reads[i]) =>
            /\ i < Len(reads)
            /\ reads[i + 1].app = reads[i].app
            /\ ~Rejected(reads[i + 1])
    /\ LastWarmUpMetMismatch =>
        /\ lastRaw.kind /= "type_error"
        /\ (attempted[Len(attempted)].outcome = "success") <=> ReadSucceeded(lastRaw)

\* The warm-ups of one target in this run, and the attribute reads the binding
\* accepted for it (a call rejected for its shape reads nothing).
AttemptsOf(a) == {i \in DOMAIN attempted : attempted[i].app = a}
AcceptedReadsOf(a) == {i \in DOMAIN reads : reads[i].app = a /\ ~Rejected(reads[i])}

\* C13: within one run every attempted target is warmed up once and read once,
\* whatever the outcome of its warm-up; no target is read a second time.  (A
\* target whose handle could not be created has no read at all.)
C13_OneReadPerTarget ==
    \A a \in AttemptedRecords :
        /\ Cardinality(AttemptsOf(a)) = 1
        /\ Cardinality(AcceptedReadsOf(a)) <= 1

=============================================================================
